---------------------------- MODULE Spec2Model ----------------------------
(***************************************************************************)
(* LeeWave RO Reporter (src/app.py): the Daily Report page's KPI           *)
(* calculation, its per-stage / per-vessel rejection table, the date-keyed *)
(* daily CSV series that "Calculate & Save" upserts, and the Weekly        *)
(* Report's forecast utilities.  The health evaluator and the              *)
(* max-safe-output solver, which the source files do not hold, follow      *)
(* sections 4.4 and 4.2 of the specification.                              *)
(*                                                                         *)
(* Numbers.  Python floats are modelled as exact rationals <<n, d>> in     *)
(* lowest terms with d > 0.  A product whose numerator leaves the integer  *)
(* range of the model checker (2^31 - 1) saturates to a signed infinity,   *)
(* <<1, 0>> or <<-1, 0>>.  Only quotients by the code's epsilon guards     *)
(* (1e-9, 1e-6) grow that large: the code clamps them to [0, 100], except  *)
(* the mass-balance error of a reading with zero feed flow, which the row  *)
(* then records as infinite.                                               *)
(* Python's None is the empty tuple.                                       *)
(***************************************************************************)
EXTENDS Integers, Sequences, FiniteSets, TLC

VARIABLES
    inp,            \* a reading handed to the calculation (calculation models)
    out,            \* what the calculation made of inp: the row and the vessel table
    user_email,     \* st.session_state.user_email
    plant_capacity, \* st.session_state["plant_capacity"]
    num_stages,     \* st.session_state["num_stages"]
    files,          \* the daily CSV files: path key -> "nofile" or sequence of rows
    saved,          \* history: path key -> date -> the row last saved for it
    nsaves,         \* number of Calculate & Save clicks so far
    authed,         \* st.session_state.authed
    user_role,      \* st.session_state.user_role
    login_attempts, \* st.session_state.login_attempts
    lock_until,     \* st.session_state.lock_until
    now,            \* datetime.now(), in minutes
    users_db,       \* users.json: normalized email -> account
    writers         \* Calculate & Save handlers of concurrent sessions in progress

\* the sign-in state and the users database
authVars == <<authed, user_role, login_attempts, lock_until, now, users_db>>

vars == <<inp, out, user_email, plant_capacity, num_stages, files, saved, nsaves,
          authVars, writers>>

---------------------------------------------------------------------------
(* Exact rational arithmetic standing for Python float arithmetic *)

None == <<>>

MaxInt == 2147483646 + 1

Abs(x) == IF x < 0 THEN -x ELSE x

Sign(x) == IF x < 0 THEN -1 ELSE IF x = 0 THEN 0 ELSE 1

RECURSIVE GCD(_, _)
GCD(a, b) == IF b = 0 THEN a ELSE GCD(b, a % b)

\* the rational n/d (d # 0) in lowest terms with a positive denominator
Rat(n, d) ==
    LET g == GCD(Abs(n), Abs(d))
        s == IF d < 0 THEN -1 ELSE 1
    IN  <<(s * n) \div g, (s * d) \div g>>

Num(i) == <<i, 1>>

Zero == Num(0)

One == Num(1)

Hundred == Num(100)

PosInf == <<1, 0>>

NegInf == <<-1, 0>>

IsInf(x) == x[2] = 0

IsNum(x) == x # None /\ ~IsInf(x)

\* a * b stays inside the integer range
Fits(a, b) == a = 0 \/ b = 0 \/ Abs(a) <= MaxInt \div Abs(b)

\* an arithmetic case the model does not cover: evaluation stops with an error
Unsupported == CHOOSE x \in {} : TRUE

RNeg(x) == <<-x[1], x[2]>>

RMul(x, y) ==
    IF IsInf(x) \/ IsInf(y)
    THEN IF Sign(x[1]) * Sign(y[1]) = 0 THEN Unsupported
         ELSE <<Sign(x[1]) * Sign(y[1]), 0>>
    ELSE LET g1 == GCD(Abs(x[1]), y[2])
             g2 == GCD(Abs(y[1]), x[2])
             n1 == x[1] \div g1
             d2 == y[2] \div g1
             n2 == y[1] \div g2
             d1 == x[2] \div g2
         IN  IF ~Fits(n1, n2) THEN <<Sign(n1) * Sign(n2), 0>>
             ELSE IF ~Fits(d1, d2) THEN Unsupported
             ELSE Rat(n1 * n2, d1 * d2)

\* 1/y for y # 0
RInv(y) ==
    IF IsInf(y) THEN Zero
    ELSE IF y[1] > 0 THEN <<y[2], y[1]>>
    ELSE IF y[1] < 0 THEN <<-y[2], -y[1]>>
    ELSE Unsupported

RDiv(x, y) == RMul(x, RInv(y))

RAdd(x, y) ==
    IF IsInf(x) THEN (IF IsInf(y) /\ y # x THEN Unsupported ELSE x)
    ELSE IF IsInf(y) THEN y
    ELSE IF Fits(x[1], y[2]) /\ Fits(y[1], x[2]) /\ Fits(x[2], y[2])
         THEN Rat(x[1] * y[2] + y[1] * x[2], x[2] * y[2])
         ELSE Unsupported

RSub(x, y) == RAdd(x, RNeg(y))

RLt(x, y) == x[1] * y[2] < y[1] * x[2]

RLe(x, y) == x[1] * y[2] <= y[1] * x[2]

\* Python max(a, b): a unless b > a; min(a, b): a unless b < a
RMax(a, b) == IF RLt(a, b) THEN b ELSE a

RMin(a, b) == IF RLt(b, a) THEN b ELSE a

RAbs(x) == IF x[1] < 0 THEN RNeg(x) ELSE x

\* Python truthiness of an optional number: None and 0.0 are falsy
Falsy(x) == x = None \/ x = Zero

\* Python "x or y"
Or(x, y) == IF Falsy(x) THEN y ELSE x

\* the epsilon floors of the division guards
Eps9 == <<1, 1000000000>>

Eps6 == <<1, 1000000>>

---------------------------------------------------------------------------
(* KPI helpers, src/app.py:387-412 *)

safe_div(a, b) ==
    LET b1 == IF b = None \/ b = Zero THEN Eps9 ELSE b
        a1 == IF a = None THEN Zero ELSE a
    IN  RDiv(a1, b1)

\* kpi_recovery_pct without its clamp to [0, 100]
kpi_recovery_pct_unclamped(product_lpm, feed_lpm) ==
    RMul(safe_div(product_lpm, feed_lpm), Hundred)

kpi_recovery_pct(product_lpm, feed_lpm) ==
    RMax(Zero, RMin(Hundred, RMul(safe_div(product_lpm, feed_lpm), Hundred)))

\* kpi_rejection_pct returning the passage prod/feed instead of 1 - prod/feed
kpi_rejection_pct_passage(prod_tds, feed_tds) ==
    IF prod_tds = None \/ feed_tds = None \/ feed_tds = Zero THEN None
    ELSE RMax(Zero, RMin(Hundred,
              RMul(RDiv(prod_tds, RMax(feed_tds, Eps6)), Hundred)))

kpi_rejection_pct(prod_tds, feed_tds) ==
    IF prod_tds = None \/ feed_tds = None \/ feed_tds = Zero THEN None
    ELSE RMax(Zero, RMin(Hundred,
              RMul(RSub(One, RDiv(prod_tds, RMax(feed_tds, Eps6))), Hundred)))

pressure_recovery_pct(hp_in_bar, hp_out_bar) ==
    IF hp_out_bar = None \/ hp_out_bar = Zero THEN None
    ELSE LET rise == RMax(RSub(hp_out_bar, hp_in_bar), Zero)
         IN  RMax(Zero, RMin(Hundred, RMul(safe_div(rise, hp_out_bar), Hundred)))

\* kpi_delta_p without its floor at 0
kpi_delta_p_unclamped(out_bar, in_bar) ==
    IF out_bar = None \/ in_bar = None THEN None
    ELSE RSub(out_bar, in_bar)

kpi_delta_p(out_bar, in_bar) ==
    IF out_bar = None \/ in_bar = None THEN None
    ELSE RMax(Zero, RSub(out_bar, in_bar))

temperature_correction_factor(temp_c) ==
    RMax(Rat(6, 10), RMin(Rat(16, 10),
         RAdd(One, RMul(Rat(3, 100), RSub(temp_c, Num(25))))))

osmotic_pressure_approx(tds_mgL, temp_c) ==
    LET T == RAdd(temp_c, Rat(27315, 100))
    IN  RMul(RMul(Rat(8, 10000), RMax(tds_mgL, Zero)), RDiv(T, Num(298)))

net_driving_pressure_bar(hp_out_bar, feed_out_bar, feed_tds, prod_tds, temp_c) ==
    LET deltaP == RMax(RSub(hp_out_bar, feed_out_bar), Zero)
    IN  RMax(RSub(deltaP, RSub(osmotic_pressure_approx(feed_tds, temp_c),
                               osmotic_pressure_approx(prod_tds, temp_c))), Zero)

specific_energy_kwh_m3(hp_out_bar, feed_flow_lpm, efficiency_pct, product_flow_lpm) ==
    LET Q_ls == RDiv(RMax(feed_flow_lpm, Zero), Num(60))
        eta == RMax(RDiv(efficiency_pct, Hundred), Rat(1, 100))
        kW == RDiv(RMul(hp_out_bar, Q_ls), RMul(Num(36), eta))
        prod_m3_h == RDiv(RMul(product_flow_lpm, Num(60)), Num(1000))
    IN  RDiv(kW, RMax(prod_m3_h, Eps6))

permeate_quality_index(product_tds, target_tds) ==
    IF product_tds = None THEN None
    ELSE RMax(Zero, RSub(Hundred,
              RMin(Hundred, RMul(RDiv(product_tds, RMax(target_tds, Eps6)), Hundred))))

normalized_permeate_flow(permeate_flow_lpm, tcf) == safe_div(permeate_flow_lpm, tcf)


---------------------------------------------------------------------------
(* Maintenance note, src/app.py:414-433.  A tip is named by its leading words. *)

DEFAULT_LIMITS ==
    [product_tds_max |-> Num(60), cartridge_dp_max |-> Rat(7, 10),
     vessel_dp_max |-> Rat(15, 10), rejection_min |-> Num(60),
     recovery_target |-> Num(70), recovery_high_margin |-> Num(3)]

TipRejection == "Rejection below target"

TipProductTds == "Product TDS high"

TipCartridge == "Cartridge dP high"

TipVessel == "Vessel dP high"

TipFlow == "Flow imbalance noted"

TipHealthy == "Inputs vs outputs look healthy today"

maintenance_note_from_row(row, limits) ==
    LET t1 == IF RLt(Or(row.rejection_pct, Hundred), limits.rejection_min)
              THEN <<TipRejection>> ELSE <<>>
        t2 == IF RLt(limits.product_tds_max, Or(row.product_tds, Zero))
              THEN <<TipProductTds>> ELSE <<>>
        t3 == IF RLt(limits.cartridge_dp_max, Or(row.cartridge_dp, Zero))
              THEN <<TipCartridge>> ELSE <<>>
        t4 == IF RLt(limits.vessel_dp_max, Or(row.vessel_dp, Zero))
              THEN <<TipVessel>> ELSE <<>>
        t5 == IF ~row.feed_vs_sum_ok THEN <<TipFlow>> ELSE <<>>
        tips == t1 \o t2 \o t3 \o t4 \o t5
    IN  IF tips = <<>> THEN <<TipHealthy>> ELSE tips

---------------------------------------------------------------------------
(* Calculate & Save, the computation: src/app.py:486-497 and 518-606 *)

\* index i put into perm, a sequence of indices in ascending order of keys
RECURSIVE InsertByKey(_, _, _)
InsertByKey(i, perm, keys) ==
    IF perm = <<>> THEN <<i>>
    ELSE IF keys[i] < keys[Head(perm)] THEN <<i>> \o perm
    ELSE <<Head(perm)>> \o InsertByKey(i, Tail(perm), keys)

\* the indices 1..n of keys in ascending order of key
RECURSIVE SortPerm(_, _)
SortPerm(keys, n) ==
    IF n = 0 THEN <<>> ELSE InsertByKey(n, SortPerm(keys, n - 1), keys)

\* sort_values leaving the rows in the order it was given them
sort_values_unsorted(seq, keys) == seq

\* DataFrame.sort_values: the rows of seq in ascending order of their keys
sort_values(seq, keys) ==
    LET perm == SortPerm(keys, Len(seq))
    IN  [i \in 1..Len(seq) |-> seq[perm[i]]]

\* the rows the vessel inputs of one stage append to per_vessel_rows
StageRows(s, vals) ==
    [v \in 1..Len(vals) |-> [Stage |-> s, Vessel |-> v, tds |-> vals[v]]]

RECURSIVE per_vessel_rows_upto(_, _)
per_vessel_rows_upto(vessel_tds, s) ==
    IF s = 0 THEN <<>>
    ELSE per_vessel_rows_upto(vessel_tds, s - 1) \o StageRows(s, vessel_tds[s])

\* per_vessel_rows after the input loop over the stages
per_vessel_rows(vessel_tds) == per_vessel_rows_upto(vessel_tds, Len(vessel_tds))

RECURSIVE SumSeq(_)
SumSeq(vals) == IF vals = <<>> THEN Zero ELSE RAdd(Head(vals), SumSeq(Tail(vals)))

\* np.mean of a non-empty list
Mean(vals) == RDiv(SumSeq(vals), Num(Len(vals)))

\* vals = [r["Permeate TDS (ppm)"] for r in per_vessel_rows if r["Stage"]==s]
StageVals(rows, s) ==
    LET sel == SelectSeq(rows, LAMBDA r : r.Stage = s)
    IN  [i \in 1..Len(sel) |-> sel[i].tds]

\* stage_avg.get(s, {}).get("avg_tds", dflt): dflt only when a key is missing
GetAvgTds(stage_avg, s, dflt) ==
    IF s \in DOMAIN stage_avg THEN stage_avg[s].avg_tds ELSE dflt

\* up_tds taking feed TDS for every stage
up_tds_feed(stage_avg, s, feed_tds) == feed_tds

\* the upstream TDS of the stage rejection (line 538)
up_tds(stage_avg, s, feed_tds) ==
    IF s = 1 THEN feed_tds ELSE GetAvgTds(stage_avg, s - 1, feed_tds)

\* the upstream TDS of a vessel's rejection (line 552)
upstream_tds(stage_avg, s, feed_tds) ==
    IF s = 1 THEN feed_tds ELSE Or(GetAvgTds(stage_avg, s - 1, None), feed_tds)

\* stage_avg after the loop has handled stages 1..s
RECURSIVE stage_avg_upto(_, _, _)
stage_avg_upto(rows, feed_tds, s) ==
    IF s = 0 THEN <<>>
    ELSE LET prev == stage_avg_upto(rows, feed_tds, s - 1)
             vals == StageVals(rows, s)
         IN  IF vals # <<>>
             THEN LET avg_tds == Mean(vals)
                      rej == kpi_rejection_pct(avg_tds, up_tds(prev, s, feed_tds))
                  IN  Append(prev, [avg_tds |-> avg_tds, rejection_pct |-> rej])
             ELSE Append(prev, [avg_tds |-> None, rejection_pct |-> None])

\* the dict stage_avg: empty when there are no vessel rows at all
stage_avg_of(rows, feed_tds, stages) ==
    IF Len(rows) > 0 THEN stage_avg_upto(rows, feed_tds, stages) ELSE <<>>

\* the sort key ["Stage", "Vessel"] of a vessel row, as one integer
VesselKey(rows, i) == rows[i].Stage * (Len(rows) + 1) + rows[i].Vessel

\* per_vessel_df: every vessel with its rejection, sorted by stage and vessel
per_vessel_df_of(rows, stage_avg, feed_tds) ==
    sort_values([i \in 1..Len(rows) |->
                   [Stage |-> rows[i].Stage, Vessel |-> rows[i].Vessel,
                    tds |-> rows[i].tds,
                    rej |-> kpi_rejection_pct(rows[i].tds,
                               upstream_tds(stage_avg, rows[i].Stage, feed_tds))]],
                [i \in 1..Len(rows) |-> VesselKey(rows, i)])

salt_passage_pct_of(rejection_pct) == RSub(Hundred, Or(rejection_pct, Zero))

\* reject flow without its floor at 0
reject_flow_of_unclamped(feed_flow, product_flow) == RSub(feed_flow, product_flow)

\* reject_flow of line 519: the handler has no reject flow input
reject_flow_of(feed_flow, product_flow) ==
    RMax(RSub(feed_flow, product_flow), Zero)

\* the row dict built from the inputs i for user u, capacity cap, stage count stages
ComputeRow(i, u, cap, stages) ==
    LET reject_flow == reject_flow_of(i.feed_flow, i.product_flow)
        imbalance == RSub(RAdd(i.product_flow, reject_flow), i.feed_flow)
        mass_balance_err ==
            RMul(RDiv(imbalance, RMax(i.feed_flow, Eps6)), Hundred)
        recovery_pct == kpi_recovery_pct(i.product_flow, i.feed_flow)
        rejection_pct == kpi_rejection_pct(i.product_tds, i.feed_tds)
        cartridge_dp == kpi_delta_p(i.cartridge_p, i.feed_p_out)
        vessel_dp == kpi_delta_p(i.hp_out, i.feed_p_out)
        hp_dp == kpi_delta_p(i.hp_out, i.hp_in)
        press_rec_pct == pressure_recovery_pct(i.hp_in, i.hp_out)
        rows == per_vessel_rows(i.vessel_tds)
        stage_avg == stage_avg_of(rows, i.feed_tds, stages)
        tcf == temperature_correction_factor(i.temp_c)
        ndp == net_driving_pressure_bar(i.hp_out, i.feed_p_out, i.feed_tds,
                                        i.product_tds, i.temp_c)
        spec_energy == specific_energy_kwh_m3(i.hp_out, i.feed_flow,
                                              i.pump_efficiency, i.product_flow)
        daily_kwh == RMul(RMul(spec_energy,
                               RDiv(RMul(i.product_flow, Num(60)), Num(1000))),
                          Num(24))
        feed_match == RLe(RAbs(imbalance),
                          RMax(Num(2), RMul(Rat(2, 100), i.feed_flow)))
        row0 ==
            [date |-> i.report_date, user |-> u, capacity_m3d |-> cap,
             stage_count |-> stages,
             feed_tds |-> i.feed_tds, product_tds |-> i.product_tds,
             feed_p_in |-> i.feed_p_in, feed_p_out |-> i.feed_p_out,
             cartridge_p |-> i.cartridge_p, hp_in |-> i.hp_in, hp_out |-> i.hp_out,
             feed_flow_lpm |-> i.feed_flow, product_flow_lpm |-> i.product_flow,
             reject_flow_lpm |-> reject_flow,
             recovery_pct |-> recovery_pct, rejection_pct |-> rejection_pct,
             pressure_recovery_pct |-> press_rec_pct,
             cartridge_dp |-> cartridge_dp, vessel_dp |-> vessel_dp, hp_dp |-> hp_dp,
             mass_balance_err_pct |-> mass_balance_err,
             feed_vs_sum_ok |-> feed_match,
             temp_c |-> i.temp_c, pump_efficiency_pct |-> i.pump_efficiency,
             tcf |-> tcf, ndp_bar |-> ndp,
             salt_passage_pct |-> salt_passage_pct_of(rejection_pct),
             specific_energy_kwh_m3 |-> spec_energy, daily_kwh |-> daily_kwh,
             pqi |-> permeate_quality_index(i.product_tds, Num(50)),
             npf_lpm |-> normalized_permeate_flow(i.product_flow, tcf),
             stage_avg_tds |-> [k \in 1..stages |-> GetAvgTds(stage_avg, k, None)],
             stage_rejection_pct |->
                 [k \in 1..stages |->
                     IF k \in DOMAIN stage_avg THEN stage_avg[k].rejection_pct
                     ELSE None]]
    IN  [row |-> [f \in DOMAIN row0 \cup {"maintenance_note"} |->
                    IF f = "maintenance_note"
                    THEN maintenance_note_from_row(row0, DEFAULT_LIMITS)
                    ELSE row0[f]],
         per_vessel_df |-> per_vessel_df_of(rows, stage_avg, i.feed_tds)]


---------------------------------------------------------------------------
(* Text and paths, src/app.py:141-149 and 378-385.  Text typed into a form *)
(* is a sequence of one-character strings.                                 *)

\* str.lower() on the letters in use
Lower(c) ==
    IF c = "A" THEN "a" ELSE IF c = "B" THEN "b" ELSE IF c = "R" THEN "r"
    ELSE IF c = "X" THEN "x" ELSE c

\* str.strip() of blanks
RECURSIVE LStrip(_)
LStrip(t) == IF t # <<>> /\ Head(t) = " " THEN LStrip(Tail(t)) ELSE t

RECURSIVE RStrip(_)
RStrip(t) ==
    IF t # <<>> /\ t[Len(t)] = " " THEN RStrip(SubSeq(t, 1, Len(t) - 1)) ELSE t

\* normalize_email(e): (e or "").strip().lower()
normalize_email(e) ==
    LET t == RStrip(LStrip(e)) IN [i \in 1..Len(t) |-> Lower(t[i])]

\* the characters in use that the class [a-zA-Z0-9_.-] holds
SafeChars == {"a", "b", "c", "r", "x", "A", "B", "R", "X", "d", "m", "i", "n",
              "1", "2", "3", "_", ".", "-"}

\* re.sub(r"[^a-zA-Z0-9_.-]+", "_", t): each run of other characters becomes
\* one underscore; in_run says the character before t was one of them
RECURSIVE sub_unsafe(_, _)
sub_unsafe(t, in_run) ==
    IF t = <<>> THEN <<>>
    ELSE IF Head(t) \in SafeChars THEN <<Head(t)>> \o sub_unsafe(Tail(t), FALSE)
    ELSE (IF in_run THEN <<>> ELSE <<"_">>) \o sub_unsafe(Tail(t), TRUE)

\* email_safe(e), line 142
email_safe(e) == sub_unsafe(normalize_email(e), FALSE)

\* user_dir(email): the directory USERS_DIR / email_safe(email)
user_dir(email) == email_safe(email)

---------------------------------------------------------------------------
(* Bounds and input values *)

\* most vessel readings per stage, and most stages, of the stage calculation
MaxVessels == 2

MaxStages == 3

\* dates are day numbers 1..MaxDate; "%Y-%m-%d" strings of one era order alike
MaxDate == 2

\* most Calculate & Save clicks in one run of the save model
MaxSaves == 3

\* readings of the KPI calculation: the core's domain, wider than the widgets'
FeedTdsValues == {Num(-1), Zero, Num(1000)}

ProductTdsValues == {None, Zero, Num(50), Num(500), Num(1000)}

FeedFlowValues == {Zero, Num(100), Num(200)}

ProductFlowValues == {Zero, Num(60), Num(100), Num(101), Num(150), Num(203)}

PumpInValues == {Num(2), Num(12)}

PumpOutValues == {Zero, Num(12)}

\* vessel readings of the stage calculation
VesselTdsValues == {Zero, Num(100)}

\* the widget defaults of the remaining inputs (lines 474-476, 503, 515)
BaseInputs ==
    [report_date |-> 1, feed_tds |-> Num(1000), product_tds |-> Num(50),
     feed_p_in |-> Rat(12, 10), feed_p_out |-> One, cartridge_p |-> Rat(17, 10),
     hp_in |-> Num(2), hp_out |-> Num(12),
     feed_flow |-> Num(100), product_flow |-> Num(60),
     temp_c |-> Num(25), pump_efficiency |-> Num(75),
     vessel_tds |-> << <<>> >>]

\* the sidebar's values in the save model (lines 344, 359)
CapacityValues == {10, 20}

SaveStageCounts == {1, 2}

Users == {<<"a", "@", "x", ".", "c">>}

\* two more registered addresses, a+b@x.c and a_b@x.c
PlusUser == <<"a", "+", "b", "@", "x", ".", "c">>

UnderscoreUser == <<"a", "_", "b", "@", "x", ".", "c">>

Accounts == Users \cup {PlusUser, UnderscoreUser}

Dates == 1..MaxDate

\* user_csv_path(email, capacity_m3d) when the session's stage count is stages:
\* the file daily_<capacity>m3d_<stages>stages.csv of the user's directory
user_csv_path(email, capacity_m3d, stages) == <<user_dir(email), capacity_m3d, stages>>

\* the paths of the daily series
Keys == {user_dir(u) : u \in Accounts} \X CapacityValues \X SaveStageCounts

\* readings entered within the widgets' ranges, one vessel per stage
UIReadings ==
    {[BaseInputs EXCEPT !.product_tds = p, !.hp_in = h] :
        p \in {Num(50), Num(500)}, h \in {Num(2)}}

NotComputed == [computed |-> FALSE, raised |-> FALSE]

---------------------------------------------------------------------------
(* The CSV file of one path key: DataFrame.to_csv and pd.read_csv *)

NaN == <<0, 0>>

EmptyCell == <<0, 0, 0>>

OptionalFields ==
    {"rejection_pct", "pressure_recovery_pct", "cartridge_dp", "vessel_dp",
     "hp_dp", "pqi"}

StageFields == {"stage_avg_tds", "stage_rejection_pct"}

\* to_csv writes a missing value (None or NaN) as an empty cell
ToCsvCell(v) == IF v = None \/ v = NaN THEN EmptyCell ELSE v

\* read_csv reads an empty cell as NaN
ReadCsvCell(c) == IF c = EmptyCell THEN NaN ELSE c

\* one DataFrame row written as a line of CSV cells
to_csv_row(r) ==
    [f \in DOMAIN r |->
        IF f \in OptionalFields THEN ToCsvCell(r[f])
        ELSE IF f \in StageFields THEN [k \in DOMAIN r[f] |-> ToCsvCell(r[f][k])]
        ELSE r[f]]

\* one line of CSV cells read as a DataFrame row
read_csv_row(c) ==
    [f \in DOMAIN c |->
        IF f \in OptionalFields THEN ReadCsvCell(c[f])
        ELSE IF f \in StageFields THEN [k \in DOMAIN c[f] |-> ReadCsvCell(c[f][k])]
        ELSE c[f]]

to_csv(df) == [i \in 1..Len(df) |-> to_csv_row(df[i])]

read_csv(rows) == [i \in 1..Len(rows) |-> read_csv_row(rows[i])]

NoFile == [exists |-> FALSE, rows |-> <<>>]

\* DropDate without the filter: every old row is kept
DropDate_keep(df_old, d) == df_old

\* df_old[df_old["date"] != row["date"]]
DropDate(df_old, d) == SelectSeq(df_old, LAMBDA r : r.date # d)

\* MergeSave writing the new row alone, whatever the file held
MergeSave_overwrite(file, row) == [exists |-> TRUE, rows |-> to_csv(<<row>>)]

\* the save / merge of lines 608-615: the file's rows after row is saved
MergeSave(file, row) ==
    IF file.exists
    THEN LET df_old == read_csv(file.rows)
             cat == DropDate(df_old, row.date) \o <<row>>
             df_all == sort_values(cat, [i \in 1..Len(cat) |-> cat[i].date])
         IN  [exists |-> TRUE, rows |-> to_csv(df_all)]
    ELSE [exists |-> TRUE, rows |-> to_csv(<<row>>)]

\* the Dashboard's last = df.iloc[-1] (lines 447-450) of a file that has rows
dashboard_last(file) == LET df == read_csv(file.rows) IN df[Len(df)]

\* csv_path_for_current(): the key of the session's user, capacity and stage count
csv_path_for_current == user_csv_path(user_email, plant_capacity, num_stages)

---------------------------------------------------------------------------
(* The handler's computation as a step *)

\* the computation raises TypeError (max(None, 0.0), line 401) without product TDS
Raises(i) == i.product_tds = None

Computed(i, u, cap, stages) ==
    IF Raises(i) THEN [computed |-> FALSE, raised |-> TRUE]
    ELSE [computed |-> TRUE, raised |-> FALSE] @@ ComputeRow(i, u, cap, stages)

\* Calculate & Save up to the row: lines 518-606
Compute ==
    /\ ~out.computed /\ ~out.raised
    /\ out' = Computed(inp, user_email, plant_capacity, num_stages)
    /\ UNCHANGED <<inp, user_email, plant_capacity, num_stages, files, saved, nsaves,
                 authVars, writers>>

---------------------------------------------------------------------------
(* Accounts, src/app.py:94-141 *)

\* hash_password: a salted hash, which verifies exactly the password hashed
hash_password(pw) == <<"hash", pw>>

\* verify_password accepting every password
verify_password_any(pw, hashed) == TRUE

verify_password(pw, hashed) == hashed = <<"hash", pw>>

\* lock_until = None
NoLock == -1

\* _default_users(): the administrator's account
AdminEmail == <<"r", "@", "x", ".", "c">>

AdminPassword == <<"A", "d", "m", "i", "n", "1", "2", "3">>

default_users ==
    [e \in {AdminEmail} |->
        [password_hash |-> hash_password(AdminPassword), role |-> "admin",
         status |-> "active"]]

\* no Calculate & Save of another session under way
NoWriters == <<>>

\* a signed-in session, as the pages behind the sign-in see it
SignedIn ==
    /\ authed = TRUE
    /\ user_role = "user"
    /\ login_attempts = 0
    /\ lock_until = NoLock
    /\ now = 0
    /\ users_db = default_users
    /\ writers = NoWriters

SessionInit ==
    /\ SignedIn
    /\ user_email \in Users
    /\ plant_capacity = 10
    /\ files = [k \in Keys |-> NoFile]
    /\ saved = [k \in Keys |-> [d \in Dates |-> NotComputed]]
    /\ nsaves = 0
    /\ out = NotComputed

\* KPI calculation over the core's readings, no vessel readings
InitKPI ==
    /\ SessionInit
    /\ num_stages = 1
    /\ inp \in {[BaseInputs EXCEPT !.feed_tds = ft, !.product_tds = pt,
                                   !.feed_flow = ff, !.product_flow = pf,
                                   !.hp_in = hi, !.hp_out = ho] :
                  ft \in FeedTdsValues, pt \in ProductTdsValues,
                  ff \in FeedFlowValues, pf \in ProductFlowValues,
                  hi \in PumpInValues, ho \in PumpOutValues}

NextKPI == Compute

SpecKPI == InitKPI /\ [][NextKPI]_vars

\* all sequences over S of length at most n
SeqsUpTo(S, n) == UNION {[1..k -> S] : k \in 0..n}

\* stage calculation over zero or more vessel readings per stage
InitStage ==
    /\ SessionInit
    /\ num_stages \in 1..MaxStages
    /\ inp \in {[BaseInputs EXCEPT !.vessel_tds = vt] :
                  vt \in [1..num_stages -> SeqsUpTo(VesselTdsValues, MaxVessels)]}

NextStage == Compute

SpecStage == InitStage /\ [][NextStage]_vars

---------------------------------------------------------------------------
(* The Daily Report session: sidebar and Calculate & Save *)

Init ==
    /\ SessionInit
    /\ num_stages = 1
    /\ inp = BaseInputs

\* the sidebar's plant capacity input, persisted at line 375
SetCapacity(c) ==
    /\ c # plant_capacity
    /\ plant_capacity' = c
    /\ UNCHANGED <<inp, out, user_email, num_stages, files, saved, nsaves,
                 authVars, writers>>

\* the sidebar's number-of-stages input, persisted at line 373
SetStages(n) ==
    /\ n # num_stages
    /\ num_stages' = n
    /\ UNCHANGED <<inp, out, user_email, plant_capacity, files, saved, nsaves,
                 authVars, writers>>

\* the Calculate & Save button with date d and reading r in the widgets
CalculateAndSave(d, r) ==
    /\ nsaves < MaxSaves
    /\ LET i == [r EXCEPT !.report_date = d,
                          !.vessel_tds = [s \in 1..num_stages |-> <<r.product_tds>>]]
           res == Computed(i, user_email, plant_capacity, num_stages)
           path == csv_path_for_current
       IN  /\ files' = [files EXCEPT ![path] = MergeSave(files[path], res.row)]
           /\ saved' = [saved EXCEPT ![path][d] = res]
    /\ nsaves' = nsaves + 1
    /\ UNCHANGED <<inp, out, user_email, plant_capacity, num_stages, authVars, writers>>

Next ==
    \/ \E c \in CapacityValues : SetCapacity(c)
    \/ \E n \in SaveStageCounts : SetStages(n)
    \/ \E d \in Dates, r \in UIReadings : CalculateAndSave(d, r)

Spec == Init /\ [][Next]_vars

---------------------------------------------------------------------------
(* Calculate & Save of two sessions of one account (two browser tabs) on   *)
(* one plant key.  The handler takes no lock: it reads the file at line    *)
(* 611 and rewrites it at line 615, where to_csv opens the file for        *)
(* writing, which empties it, and then writes every row.                   *)

Sessions == {"tab1", "tab2"}

IdleWriter == [pc |-> "idle"]

\* the file as to_csv leaves it between opening and writing: no bytes
Truncated == [exists |-> TRUE, rows |-> <<>>]

\* some other session is between its read and the end of its write
OtherInProgress(s) ==
    \E t \in Sessions \ {s} : writers.proc[t].pc \in {"read", "opened"}

InitConc ==
    /\ user_email \in Users
    /\ plant_capacity = 10
    /\ num_stages = 1
    /\ inp = BaseInputs
    /\ out = NotComputed
    /\ files = [k \in Keys |-> NoFile]
    /\ saved = [k \in Keys |-> [d \in Dates |-> NotComputed]]
    /\ nsaves = 0
    /\ authed = TRUE /\ user_role = "user" /\ login_attempts = 0
    /\ lock_until = NoLock /\ now = 0 /\ users_db = default_users
    /\ writers = [proc |-> [s \in Sessions |-> IdleWriter], interleaved |-> FALSE]

\* session s clicks Calculate & Save with date d and reading r: lines 518-611,
\* the row and the file as read; pd.read_csv raises EmptyDataError on a file
\* without bytes
ReadOld(s, d, r) ==
    /\ writers.proc[s].pc = "idle"
    /\ nsaves < MaxSaves
    /\ LET i == [r EXCEPT !.report_date = d,
                          !.vessel_tds = [k \in 1..num_stages |-> <<r.product_tds>>]]
           res == Computed(i, user_email, plant_capacity, num_stages)
           file == files[csv_path_for_current]
       IN  writers' =
             [proc |-> [writers.proc EXCEPT ![s] =
                          IF file = Truncated THEN [pc |-> "raised"]
                          ELSE [pc |-> "read", res |-> res, df_old |-> file]],
              interleaved |-> writers.interleaved \/ OtherInProgress(s)]
    /\ nsaves' = nsaves + 1
    /\ UNCHANGED <<inp, out, user_email, plant_capacity, num_stages, files, saved,
                   authVars>>

\* to_csv opens the file for writing
OpenForWrite(s) ==
    /\ writers.proc[s].pc = "read"
    /\ files' = [files EXCEPT ![csv_path_for_current] = Truncated]
    /\ writers' = [writers EXCEPT !.proc[s].pc = "opened"]
    /\ UNCHANGED <<inp, out, user_email, plant_capacity, num_stages, saved, nsaves,
                   authVars>>

\* to_csv writes df_all, merged from the file as this session read it
WriteAll(s) ==
    /\ writers.proc[s].pc = "opened"
    /\ LET w == writers.proc[s]
           path == csv_path_for_current
       IN  /\ files' = [files EXCEPT ![path] = MergeSave(w.df_old, w.res.row)]
           /\ saved' = [saved EXCEPT ![path][w.res.row.date] = w.res]
    /\ writers' = [writers EXCEPT !.proc[s] = IdleWriter]
    /\ UNCHANGED <<inp, out, user_email, plant_capacity, num_stages, nsaves, authVars>>

\* the error page is dismissed
Dismiss(s) ==
    /\ writers.proc[s].pc = "raised"
    /\ writers' = [writers EXCEPT !.proc[s] = IdleWriter]
    /\ UNCHANGED <<inp, out, user_email, plant_capacity, num_stages, files, saved,
                   nsaves, authVars>>

NextConc ==
    \/ \E s \in Sessions, d \in Dates, r \in UIReadings : ReadOld(s, d, r)
    \/ \E s \in Sessions : OpenForWrite(s)
    \/ \E s \in Sessions : WriteAll(s)
    \/ \E s \in Sessions : Dismiss(s)

SpecConc == InitConc /\ [][NextConc]_vars

---------------------------------------------------------------------------
(* The two core ratios as pure functions, src/app.py:389-392 *)

\* a TDS below the 1e-6 floor of kpi_rejection_pct's divisor
TinyTds == <<1, 2000000>>

RatioFeedTdsValues == {Zero, TinyTds, Eps6, Num(1000)}

RatioProductTdsValues == {None, Zero, TinyTds, Eps6, Num(1000)}

RatioFeedFlowValues == {Zero, Num(100), Num(200)}

RatioProductFlowValues == {Zero, Num(100), Num(200)}

InitRatio ==
    /\ SessionInit
    /\ num_stages = 1
    /\ inp \in [feed_tds : RatioFeedTdsValues, product_tds : RatioProductTdsValues,
                feed_flow : RatioFeedFlowValues, product_flow : RatioProductFlowValues]

\* the two calls of lines 524-525
ApplyRatios ==
    /\ ~out.computed
    /\ out' = [computed |-> TRUE, raised |-> FALSE,
               recovery_pct |-> kpi_recovery_pct(inp.product_flow, inp.feed_flow),
               rejection_pct |-> kpi_rejection_pct(inp.product_tds, inp.feed_tds)]
    /\ UNCHANGED <<inp, user_email, plant_capacity, num_stages, files, saved, nsaves,
                 authVars, writers>>

NextRatio == ApplyRatios

SpecRatio == InitRatio /\ [][NextRatio]_vars

---------------------------------------------------------------------------
(* Forecast utilities, src/app.py:876-888.  Lists are sequences; the list  *)
(* index i of the code is position i + 1 here.                             *)

\* the return value None of next_crossing_day
NoCrossing == -1

\* next_crossing_day firing on >= and <= as well
RECURSIVE crossing_from_inclusive(_, _, _, _)
crossing_from_inclusive(series_future, threshold, above, i) ==
    IF i >= Len(series_future) THEN NoCrossing
    ELSE LET v == series_future[i + 1]
         IN  IF (above /\ RLe(threshold, v)) \/ (~above /\ RLe(v, threshold))
             THEN i
             ELSE crossing_from_inclusive(series_future, threshold, above, i + 1)

next_crossing_day_inclusive(series_future, threshold, above) ==
    crossing_from_inclusive(series_future, threshold, above, 0)

\* the loop of lines 886-887 from list index i on
RECURSIVE crossing_from(_, _, _, _)
crossing_from(series_future, threshold, above, i) ==
    IF i >= Len(series_future) THEN NoCrossing
    ELSE LET v == series_future[i + 1]
         IN  IF (above /\ RLt(threshold, v)) \/ (~above /\ RLt(v, threshold))
             THEN i
             ELSE crossing_from(series_future, threshold, above, i + 1)

next_crossing_day(series_future, threshold, above) ==
    crossing_from(series_future, threshold, above, 0)

\* longest sequence handed to the crossing scan on its own
MaxSeries == 3

ScanValues == {Num(9), Num(10), Num(11)}

ScanThresholds == {Num(10)}

InitScan ==
    /\ SessionInit
    /\ num_stages = 1
    /\ inp \in [series_future : SeqsUpTo(ScanValues, MaxSeries),
                threshold : ScanThresholds, above : BOOLEAN]

\* one call of next_crossing_day
ScanCrossing ==
    /\ ~out.computed
    /\ out' = [computed |-> TRUE, raised |-> FALSE,
               cross |-> next_crossing_day(inp.series_future, inp.threshold,
                                           inp.above)]
    /\ UNCHANGED <<inp, user_email, plant_capacity, num_stages, files, saved, nsaves,
                 authVars, writers>>

NextScan == ScanCrossing

SpecScan == InitScan /\ [][NextScan]_vars

\* np.polyfit(x, y, 1) for x = 0 .. len(y) - 1 and len(y) >= 2: the slope and
\* intercept <<m, b>> of the least-squares line
polyfit(y) ==
    LET n == Len(y)
        Sx == (n * (n - 1)) \div 2
        Sxx == ((n - 1) * n * (2 * n - 1)) \div 6
        Sy == SumSeq(y)
        Sxy == SumSeq([i \in 1..n |-> RMul(Num(i - 1), y[i])])
        m == RDiv(RSub(RMul(Num(n), Sxy), RMul(Num(Sx), Sy)),
                  Num(n * Sxx - Sx * Sx))
        b == RDiv(RSub(Sy, RMul(m, Num(Sx))), Num(n))
    IN  <<m, b>>

\* [v] without the repetition
Repeat_once(v, horizon_days) == <<v>>

\* [v] * horizon_days
Repeat(v, horizon_days) == [j \in 1..horizon_days |-> v]

\* linear_forecast_next with xf restarting at index 0
linear_forecast_next_restart(values, horizon_days) ==
    IF Len(values) < 2
    THEN IF values # <<>> THEN Repeat(values[Len(values)], horizon_days)
         ELSE Repeat(Zero, horizon_days)
    ELSE LET mb == polyfit(values)
         IN  [j \in 1..horizon_days |-> RAdd(RMul(mb[1], Num(j - 1)), mb[2])]

\* linear_forecast_next answering zeros to every history of fewer than 2 points
linear_forecast_next_zeros(values, horizon_days) ==
    IF Len(values) < 2 THEN Repeat(Zero, horizon_days)
    ELSE LET mb == polyfit(values)
         IN  [j \in 1..horizon_days |->
                 RAdd(RMul(mb[1], Num(Len(values) + j - 1)), mb[2])]

\* lines 877-881; the fit of a list of finite floats does not raise
linear_forecast_next(values, horizon_days) ==
    IF Len(values) < 2
    THEN IF values # <<>> THEN Repeat(values[Len(values)], horizon_days)
         ELSE Repeat(Zero, horizon_days)
    ELSE LET mb == polyfit(values)
         IN  [j \in 1..horizon_days |->
                 RAdd(RMul(mb[1], Num(Len(values) + j - 1)), mb[2])]

\* longest history, and the horizon standing for the page's 30 days
MaxHistory == 5

MaxHorizon == 6

HistoryValues == {Num(1), Num(2), Num(3), Num(4), Num(5)}

ForecastThresholds == {Num(3), Num(10)}

InitForecast ==
    /\ SessionInit
    /\ num_stages = 1
    /\ inp \in [values : SeqsUpTo(HistoryValues, MaxHistory),
                threshold : ForecastThresholds, above : BOOLEAN,
                horizon_days : {MaxHorizon}]

\* the Weekly Report's quick prediction of one column, line 930
ForecastAndScan ==
    /\ ~out.computed
    /\ LET forecast == linear_forecast_next(inp.values, inp.horizon_days)
       IN  out' = [computed |-> TRUE, raised |-> FALSE,
                   forecast |-> forecast,
                   cross |-> next_crossing_day(forecast, inp.threshold, inp.above)]
    /\ UNCHANGED <<inp, user_email, plant_capacity, num_stages, files, saved, nsaves,
                 authVars, writers>>

NextForecast == ForecastAndScan

SpecForecast == InitForecast /\ [][NextForecast]_vars

---------------------------------------------------------------------------
(* The forecaster on histories with missing values, src/app.py:876-883.    *)
(* A column that some rows of the series lack reads back as NaN (line      *)
(* 930).  With a NaN among y the least-squares routine behind np.polyfit   *)
(* either raises LinAlgError, which the except branch of line 882 catches, *)
(* or returns NaN coefficients, depending on the LAPACK build.             *)

HasNaN(values) == \E i \in 1..Len(values) : values[i] = NaN

\* what the fit of line 880 can do
FitOutcomes(values) ==
    IF Len(values) < 2 THEN {"not_fitted"}
    ELSE IF HasNaN(values) THEN {"raises", "nan"}
    ELSE {"line"}

\* linear_forecast_next when the fit does as fit says
linear_forecast_next_fit(values, horizon_days, fit) ==
    IF fit = "raises" THEN Repeat(values[Len(values)], horizon_days)
    ELSE IF fit = "nan" THEN Repeat(NaN, horizon_days)
    ELSE linear_forecast_next(values, horizon_days)

FitValues == {Num(1), Num(5), NaN}

InitFit ==
    /\ SessionInit
    /\ num_stages = 1
    /\ inp \in [values : SeqsUpTo(FitValues, MaxHistory),
                horizon_days : 0..MaxHorizon]

Forecast ==
    /\ ~out.computed
    /\ \E fit \in FitOutcomes(inp.values) :
           out' = [computed |-> TRUE, raised |-> FALSE, fit |-> fit,
                   forecast |-> linear_forecast_next_fit(inp.values,
                                                         inp.horizon_days, fit)]
    /\ UNCHANGED <<inp, user_email, plant_capacity, num_stages, files, saved, nsaves,
                 authVars, writers>>

NextFit == Forecast

SpecFit == InitFit /\ [][NextFit]_vars

---------------------------------------------------------------------------
(* Array split, src/02_RO_Designer.py:39-46 and the same loop at           *)
(* src/app.py:1002-1005                                                    *)

\* rem // (stages - i): the quotient rounded down
FloorDiv(a, b) == a \div b

\* math.ceil(rem / (stages - i)) for rem >= 0
CeilDiv(a, b) == (a + b - 1) \div b

\* the loop from one stage on: rem vessels remain for the last left stages
RECURSIVE split_rest(_, _)
split_rest(rem, left) ==
    IF left = 0 THEN <<>>
    ELSE LET v == CeilDiv(rem, left)
         IN  <<v>> \o split_rest(rem - v, left - 1)

suggest_array_split(vessels_total, stages) == split_rest(vessels_total, stages)

\* most vessels and most stages of a design
MaxVesselsTotal == 15

MaxSplitStages == 6

InitSplit ==
    /\ SessionInit
    /\ num_stages = 1
    /\ inp \in [vessels_total : 0..MaxVesselsTotal, stages : 1..MaxSplitStages]

Split ==
    /\ ~out.computed
    /\ out' = [computed |-> TRUE, raised |-> FALSE,
               split |-> suggest_array_split(inp.vessels_total, inp.stages)]
    /\ UNCHANGED <<inp, user_email, plant_capacity, num_stages, files, saved, nsaves,
                 authVars, writers>>

NextSplit == Split

SpecSplit == InitSplit /\ [][NextSplit]_vars

---------------------------------------------------------------------------
(* Health evaluator, specification section 4.4: a rule engine over the     *)
(* metrics of one reading.  An absent metric is unknown and breaks no      *)
(* bound.                                                                  *)

\* default thresholds: the loose ("OK") bounds and the tight ("Good") ones
HealthThresholds ==
    [rejection_min |-> Num(92), rejection_good |-> Num(95),
     cf_max |-> Num(3), cf_good |-> Rat(5, 2),
     dp_max |-> Num(4), dp_good |-> Num(3),
     ndp_min |-> One,
     mb_tol |-> Num(8), mb_good |-> Num(5),
     recovery_lo |-> Num(25), recovery_hi |-> Num(80),
     recovery_good_lo |-> Num(35), recovery_good_hi |-> Num(75)]

\* x is absent or at least lo / at most hi
AtLeast(x, lo) == x = None \/ RLe(lo, x)

AtMost(x, hi) == x = None \/ RLe(x, hi)

\* every metric of m within the bounds given
WithinBounds(m, rejection_min, cf_max, dp_max, ndp_min, mb_tol, rec_lo, rec_hi) ==
    /\ AtLeast(m.rejection, rejection_min)
    /\ AtMost(m.cf, cf_max)
    /\ \A k \in 1..Len(m.dps) : AtMost(m.dps[k], dp_max)
    /\ AtLeast(m.ndp, ndp_min)
    /\ m.mb_error = None \/ RLe(RAbs(m.mb_error), mb_tol)
    /\ AtLeast(m.recovery, rec_lo) /\ AtMost(m.recovery, rec_hi)

WithinGood(m, t) ==
    WithinBounds(m, t.rejection_good, t.cf_good, t.dp_good, t.ndp_min,
                 t.mb_good, t.recovery_good_lo, t.recovery_good_hi)

WithinOK(m, t) ==
    WithinBounds(m, t.rejection_min, t.cf_max, t.dp_max, t.ndp_min,
                 t.mb_tol, t.recovery_lo, t.recovery_hi)

\* the status decision testing the loose bounds first
health_status_loose_first(m, t) ==
    IF WithinOK(m, t) THEN "OK"
    ELSE IF WithinGood(m, t) THEN "Good"
    ELSE "NeedsAttention"

\* the status decision: Good, else OK, else NeedsAttention
health_status(m, t) ==
    IF WithinGood(m, t) THEN "Good"
    ELSE IF WithinOK(m, t) THEN "OK"
    ELSE "NeedsAttention"

RecoveryReasons == {"recovery above 80: scaling risk", "recovery below 25: under-used"}

\* the full reason list against the full threshold set, as a set
health_reasons(m, t) ==
    {r \in {"rejection below min", "CF above max", "dP above max",
             "NDP below min", "mass-balance error above tolerance"}
            \cup RecoveryReasons :
        \/ r = "rejection below min" /\ ~AtLeast(m.rejection, t.rejection_min)
        \/ r = "CF above max" /\ ~AtMost(m.cf, t.cf_max)
        \/ r = "dP above max" /\ \E k \in 1..Len(m.dps) : ~AtMost(m.dps[k], t.dp_max)
        \/ r = "NDP below min" /\ ~AtLeast(m.ndp, t.ndp_min)
        \/ r = "mass-balance error above tolerance"
               /\ m.mb_error # None /\ RLt(t.mb_tol, RAbs(m.mb_error))
        \/ r = "recovery above 80: scaling risk" /\ ~AtMost(m.recovery, t.recovery_hi)
        \/ r = "recovery below 25: under-used" /\ ~AtLeast(m.recovery, t.recovery_lo)}

\* the scaling-risk label bucketed from CF
scaling_risk(cf) ==
    IF RLe(cf, Num(2)) THEN "Low"
    ELSE IF RLe(cf, Rat(5, 2)) THEN "Medium"
    ELSE IF RLe(cf, Num(3)) THEN "High"
    ELSE "Very High"

\* status, emitted reasons (recovery reasons only with NeedsAttention), label
evaluate_health(m, t) ==
    LET status == health_status(m, t)
        reasons == health_reasons(m, t)
    IN  [status |-> status,
         reasons |-> IF status = "NeedsAttention" THEN reasons
                     ELSE reasons \ RecoveryReasons,
         scaling_risk |-> scaling_risk(m.cf)]

HealthRejectionValues == {None, Num(91), Num(92), Num(93), Num(95), Num(96)}

HealthCfValues == {Num(2), Rat(28, 10), Num(3), Rat(7, 2)}

HealthDpValues == {Num(2), Rat(7, 2), Num(5)}

HealthNdpValues == {Rat(1, 2), One, Rat(6, 5), Num(2)}

HealthMbValues == {Num(-9), Num(-8), Num(1), Num(5), Num(6)}

HealthRecoveryValues == {None, Num(20), Num(25), Num(55), Num(75), Num(78), Num(85)}

InitHealth ==
    /\ SessionInit
    /\ num_stages = 1
    /\ inp \in [rejection : HealthRejectionValues, cf : HealthCfValues,
                dps : [1..2 -> HealthDpValues], ndp : HealthNdpValues,
                mb_error : HealthMbValues, recovery : HealthRecoveryValues]

EvaluateHealth ==
    /\ ~out.computed
    /\ out' = [computed |-> TRUE, raised |-> FALSE]
                 @@ evaluate_health(inp, HealthThresholds)
    /\ UNCHANGED <<inp, user_email, plant_capacity, num_stages, files, saved, nsaves,
                 authVars, writers>>

NextHealth == EvaluateHealth

SpecHealth == InitHealth /\ [][NextHealth]_vars

---------------------------------------------------------------------------
(* Max-safe-output solver, specification section 4.2: the permeate flow Qp *)
(* that drives the reject concentration to the ceiling CFmax.              *)

\* reject TDS from the salt balance of section 4.1
reject_tds_of(feed_tds, product_tds, feed_flow, Qp, Qr) ==
    IF RLt(Zero, Qr)
    THEN RDiv(RSub(RMul(feed_tds, feed_flow), RMul(product_tds, Qp)), Qr)
    ELSE feed_tds

\* the solver without the clamp of Qp to [0, feed_flow]
max_safe_output_unclamped(feed_tds, product_tds, feed_flow, cf_max) ==
    LET denom == RSub(RDiv(product_tds, feed_tds), cf_max)
    IN  IF RLt(denom, Zero)
        THEN LET Qp == RDiv(RMul(feed_flow, RSub(One, cf_max)), denom)
                 Qr == RSub(feed_flow, Qp)
             IN  [feasible |-> TRUE, Qp |-> Qp, Qr |-> Qr,
                  reject_tds |-> reject_tds_of(feed_tds, product_tds, feed_flow, Qp, Qr)]
        ELSE [feasible |-> FALSE, Qp |-> Zero, Qr |-> feed_flow,
              reject_tds |-> feed_tds]

\* the solver leaving the membrane's salt passage out of denom
max_safe_output_no_passage(feed_tds, product_tds, feed_flow, cf_max) ==
    LET denom == RNeg(cf_max)
    IN  IF RLt(denom, Zero)
        THEN LET raw == RDiv(RMul(feed_flow, RSub(One, cf_max)), denom)
                 Qp == RMax(Zero, RMin(feed_flow, raw))
                 Qr == RSub(feed_flow, Qp)
             IN  [feasible |-> TRUE, Qp |-> Qp, Qr |-> Qr,
                  reject_tds |-> reject_tds_of(feed_tds, product_tds, feed_flow, Qp, Qr)]
        ELSE [feasible |-> FALSE, Qp |-> Zero, Qr |-> feed_flow,
              reject_tds |-> feed_tds]

max_safe_output(feed_tds, product_tds, feed_flow, cf_max) ==
    LET denom == RSub(RDiv(product_tds, feed_tds), cf_max)
    IN  IF RLt(denom, Zero)
        THEN LET raw == RDiv(RMul(feed_flow, RSub(One, cf_max)), denom)
                 Qp == RMax(Zero, RMin(feed_flow, raw))
                 Qr == RSub(feed_flow, Qp)
             IN  [feasible |-> TRUE, Qp |-> Qp, Qr |-> Qr,
                  reject_tds |-> reject_tds_of(feed_tds, product_tds, feed_flow, Qp, Qr)]
        ELSE [feasible |-> FALSE, Qp |-> Zero, Qr |-> feed_flow,
              reject_tds |-> feed_tds]

SolverFeedTdsValues == {Num(100), Num(1000), Num(2000)}

SolverProductTdsValues == {Zero, Num(50), Num(500), Num(3000)}

SolverFeedFlowValues == {Zero, Num(100), Num(200)}

SolverCfMaxValues == {Rat(1, 2), One, Rat(5, 2), Num(3)}

InitSolver ==
    /\ SessionInit
    /\ num_stages = 1
    /\ inp \in [feed_tds : SolverFeedTdsValues, product_tds : SolverProductTdsValues,
                feed_flow : SolverFeedFlowValues, cf_max : SolverCfMaxValues]

Solve ==
    /\ ~out.computed
    /\ out' = [computed |-> TRUE, raised |-> FALSE]
                 @@ max_safe_output(inp.feed_tds, inp.product_tds, inp.feed_flow,
                                    inp.cf_max)
    /\ UNCHANGED <<inp, user_email, plant_capacity, num_stages, files, saved, nsaves,
                 authVars, writers>>

NextSolver == Solve

SpecSolver == InitSolver /\ [][NextSolver]_vars


---------------------------------------------------------------------------
(* Sign-in, registration and logout of one browser session,                *)
(* src/app.py:151-154 and 170-256.  Time is counted in minutes.  inp is    *)
(* the form last submitted and out the handler that ran last with its      *)
(* outcome.                                                                *)

\* timedelta(minutes=2), line 246
LockMinutes == 2

\* login_attempts >= 5, line 245
AttemptsLimit == 5

\* len(pw) < 8, line 185
MinPasswordLen == 8

\* the clock stops at MaxNow and the counter of failed sign-ins at MaxAttempts
MaxNow == 3

MaxAttempts == 6

\* is_locked(), line 175
is_locked == lock_until # NoLock /\ now < lock_until

\* re.match(r"^[^@]+@[^@]+\.[^@]+$", e): one "@", not first, and after it a
\* "." that is neither next to it nor last
ValidEmail(e) ==
    \E i, j \in 1..Len(e) :
        /\ e[i] = "@" /\ e[j] = "."
        /\ 1 < i /\ i + 1 < j /\ j < Len(e)
        /\ \A k \in 1..Len(e) : k # i => e[k] # "@"

Digits == {"0", "1", "2", "3", "4", "5", "6", "7", "8", "9"}

\* len(pw) < 8 or not re.search(r"\d", pw), line 185
WeakPassword(pw) == Len(pw) < MinPasswordLen \/ ~(\E i \in 1..Len(pw) : pw[i] \in Digits)

\* db["users"][e] = account: a dict assignment, which replaces an entry
SetUser(db, e, account) ==
    [x \in DOMAIN db \cup {e} |-> IF x = e THEN account ELSE db[x]]

GoodPassword == <<"p", "a", "s", "s", "w", "o", "r", "1">>

OtherPassword == <<"q", "w", "e", "r", "t", "y", "u", "2">>

NoDigitPassword == <<"p", "a", "s", "s", "w", "o", "r", "d">>

ShortPassword == <<"a", "1">>

\* addresses as typed into the forms: the administrator's, also with a blank
\* and capitals, a new one, also with a capital and a blank, and one without "@"
AdminTyped == <<" ", "R", "@", "X", ".", "c">>

NewEmail == <<"a", "@", "x", ".", "c">>

NewTyped == <<"A", "@", "x", ".", "c", " ">>

NoAtEmail == <<"a", "x">>

LoginForm(e, pw) == [form |-> "login", email |-> e, password |-> pw]

LoginForms ==
    {LoginForm(AdminEmail, AdminPassword), LoginForm(AdminTyped, AdminPassword),
     LoginForm(AdminEmail, ShortPassword), LoginForm(NewEmail, GoodPassword)}

RegisterForm(e, pw, pw2) ==
    [form |-> "register", email |-> e, password |-> pw, password2 |-> pw2]

RegisterForms ==
    {RegisterForm(NewEmail, GoodPassword, GoodPassword),
     RegisterForm(NewTyped, OtherPassword, OtherPassword),
     RegisterForm(AdminTyped, GoodPassword, GoodPassword),
     RegisterForm(NoAtEmail, GoodPassword, GoodPassword),
     RegisterForm(NewEmail, GoodPassword, OtherPassword),
     RegisterForm(NewEmail, NoDigitPassword, NoDigitPassword),
     RegisterForm(NewEmail, ShortPassword, ShortPassword)}

NoForm == [form |-> "none"]

\* the session state of lines 170-173 and the users database of a new install
InitAuth ==
    /\ authed = FALSE /\ user_email = None /\ user_role = None
    /\ login_attempts = 0 /\ lock_until = NoLock
    /\ now = 0
    /\ users_db = default_users
    /\ inp = NoForm
    /\ out = [op |-> "none", outcome |-> "none"]
    /\ plant_capacity = 10 /\ num_stages = 1
    /\ files = [k \in Keys |-> NoFile]
    /\ saved = [k \in Keys |-> [d \in Dates |-> NotComputed]]
    /\ nsaves = 0
    /\ writers = NoWriters

dataVars == <<plant_capacity, num_stages, files, saved, nsaves, writers>>

\* SignIn with the test of line 245 inside the wrong-credential branch only
SignIn_lock_on_wrong_only(f) ==
    /\ ~authed /\ ~is_locked
    /\ LET e == normalize_email(f.email)
           known == e \in DOMAIN users_db
           wrong == ~known \/ ~verify_password(f.password, users_db[e].password_hash)
           attempts == IF wrong THEN login_attempts + 1 ELSE login_attempts
       IN  /\ wrong => login_attempts < MaxAttempts
           /\ IF wrong \/ users_db[e].status # "active"
              THEN /\ login_attempts' = attempts
                   /\ lock_until' = IF wrong /\ attempts >= AttemptsLimit
                                    THEN now + LockMinutes ELSE lock_until
                   /\ out' = [op |-> "sign_in",
                              outcome |-> IF wrong THEN "invalid" ELSE "not_active"]
                   /\ UNCHANGED <<authed, user_email, user_role>>
              ELSE /\ authed' = TRUE
                   /\ user_email' = e
                   /\ user_role' = users_db[e].role
                   /\ login_attempts' = 0
                   /\ out' = [op |-> "sign_in", outcome |-> "signed_in"]
                   /\ UNCHANGED lock_until
    /\ inp' = f
    /\ UNCHANGED <<now, users_db, dataVars>>

\* "Sign in" of login_view, lines 236-247.  The form is not shown to a
\* locked session (line 216).  A successful sign-in ends in st.rerun(), so
\* the test of line 245 is not reached.
SignIn(f) ==
    /\ ~authed /\ ~is_locked
    /\ LET e == normalize_email(f.email)
           known == e \in DOMAIN users_db
           wrong == ~known \/ ~verify_password(f.password, users_db[e].password_hash)
           attempts == IF wrong THEN login_attempts + 1 ELSE login_attempts
       IN  /\ wrong => login_attempts < MaxAttempts
           /\ IF wrong \/ users_db[e].status # "active"
              THEN /\ login_attempts' = attempts
                   /\ lock_until' = IF attempts >= AttemptsLimit
                                    THEN now + LockMinutes ELSE lock_until
                   /\ out' = [op |-> "sign_in",
                              outcome |-> IF wrong THEN "invalid" ELSE "not_active"]
                   /\ UNCHANGED <<authed, user_email, user_role>>
              ELSE /\ authed' = TRUE
                   /\ user_email' = e
                   /\ user_role' = users_db[e].role
                   /\ login_attempts' = 0
                   /\ out' = [op |-> "sign_in", outcome |-> "signed_in"]
                   /\ UNCHANGED lock_until
    /\ inp' = f
    /\ UNCHANGED <<now, users_db, dataVars>>

\* a locked session opens the page: "Too many attempts" and st.stop(), line 216
SignInLocked ==
    /\ ~authed /\ is_locked
    /\ out' = [op |-> "sign_in", outcome |-> "locked"]
    /\ UNCHANGED <<inp, user_email, authVars, dataVars>>

\* Register without the test of line 188 for an address already registered
Register_unchecked(f) ==
    /\ ~authed /\ ~is_locked
    /\ LET e == normalize_email(f.email)
           outcome ==
               IF ~ValidEmail(e) THEN "invalid_email"
               ELSE IF WeakPassword(f.password) THEN "weak_password"
               ELSE IF f.password # f.password2 THEN "mismatch"
               ELSE "registered"
       IN  /\ users_db' =
                  IF outcome = "registered"
                  THEN SetUser(users_db, e,
                               [password_hash |-> hash_password(f.password),
                                role |-> "user", status |-> "active"])
                  ELSE users_db
           /\ out' = [op |-> "register", outcome |-> outcome]
    /\ inp' = f
    /\ UNCHANGED <<authed, user_email, user_role, login_attempts, lock_until, now, dataVars>>

\* "Register" of register_view, lines 182-194
Register(f) ==
    /\ ~authed /\ ~is_locked
    /\ LET e == normalize_email(f.email)
           outcome ==
               IF ~ValidEmail(e) THEN "invalid_email"
               ELSE IF WeakPassword(f.password) THEN "weak_password"
               ELSE IF f.password # f.password2 THEN "mismatch"
               ELSE IF e \in DOMAIN users_db THEN "exists"
               ELSE "registered"
       IN  /\ users_db' =
                  IF outcome = "registered"
                  THEN SetUser(users_db, e,
                               [password_hash |-> hash_password(f.password),
                                role |-> "user", status |-> "active"])
                  ELSE users_db
           /\ out' = [op |-> "register", outcome |-> outcome]
    /\ inp' = f
    /\ UNCHANGED <<authed, user_email, user_role, login_attempts, lock_until, now, dataVars>>

\* logout_button, lines 249-254
Logout ==
    /\ authed
    /\ authed' = FALSE /\ user_email' = None /\ user_role' = None
    /\ out' = [op |-> "logout", outcome |-> "none"]
    /\ UNCHANGED <<inp, login_attempts, lock_until, now, users_db, dataVars>>

\* set_user_status(email, status), lines 151-154
SetUserStatus(email, status) ==
    /\ LET e == normalize_email(email)
       IN  /\ e \in DOMAIN users_db
           /\ users_db' = [users_db EXCEPT ![e].status = status]
    /\ out' = [op |-> "set_user_status", outcome |-> status]
    /\ UNCHANGED <<inp, authed, user_email, user_role, login_attempts, lock_until, now, dataVars>>

\* a minute passes (datetime.now())
Tick ==
    /\ now < MaxNow
    /\ now' = now + 1
    /\ out' = [op |-> "none", outcome |-> "none"]
    /\ UNCHANGED <<inp, authed, user_email, user_role, login_attempts, lock_until, users_db, dataVars>>

NextAuth ==
    \/ \E f \in LoginForms : SignIn(f)
    \/ SignInLocked
    \/ \E f \in RegisterForms : Register(f)
    \/ Logout
    \/ \E e \in {AdminEmail, NewTyped}, status \in {"active", "disabled"} :
           SetUserStatus(e, status)
    \/ Tick

SpecAuth == InitAuth /\ [][NextAuth]_vars

---------------------------------------------------------------------------
(* Several registered users on one installation: each signs in, saves      *)
(* daily rows and logs out.  Their series lie under user_dir(email).       *)

\* the users database after a@x.c, a+b@x.c and a_b@x.c have registered
RegisteredUsers ==
    [e \in {AdminEmail} \cup Accounts |->
        IF e = AdminEmail THEN default_users[AdminEmail]
        ELSE [password_hash |-> hash_password(GoodPassword), role |-> "user",
              status |-> "active"]]

InitUsers ==
    /\ authed = FALSE /\ user_email = None /\ user_role = None
    /\ login_attempts = 0 /\ lock_until = NoLock
    /\ now = 0
    /\ users_db = RegisteredUsers
    /\ inp = NoForm
    /\ out = [op |-> "none", outcome |-> "none"]
    /\ plant_capacity = 10 /\ num_stages = 1
    /\ files = [k \in Keys |-> NoFile]
    /\ saved = [k \in Keys |-> [d \in Dates |-> NotComputed]]
    /\ nsaves = 0
    /\ writers = NoWriters

\* the pages behind the sign-in run for a signed-in session only (line 256)
NextUsers ==
    \/ \E u \in Accounts : SignIn(LoginForm(u, GoodPassword))
    \/ Logout
    \/ authed /\ \E c \in CapacityValues : SetCapacity(c)
    \/ authed /\ \E d \in Dates : CalculateAndSave(d, BaseInputs)

SpecUsers == InitUsers /\ [][NextUsers]_vars

---------------------------------------------------------------------------
(* Claims *)

\* the rows of the file of key k
Rows(k) == files[k].rows

\* every Calculate & Save so far wrote the file of key k
AllSavesTo(k) == \A k2 \in Keys : k2 # k => ~files[k2].exists

\* C1: after any sequence of Calculate & Save clicks, whatever their dates,
\* the stored series of every plant key holds at most one entry per date.
C1_OneEntryPerDate ==
    \A k \in Keys : \A i, j \in 1..Len(Rows(k)) :
        i # j => Rows(k)[i].date # Rows(k)[j].date

\* C1 witness: MaxSaves saves went to one file that holds two dates, so a
\* date was saved again.
C1_Witness ==
    \E k \in Keys :
        /\ nsaves = MaxSaves /\ MaxSaves > 2
        /\ AllSavesTo(k)
        /\ Len(Rows(k)) = 2

Sanitized(i) ==
    /\ i.product_tds # None
    /\ \A f \in {"feed_tds", "product_tds", "feed_flow", "product_flow", "feed_p_in",
                 "feed_p_out", "cartridge_p", "hp_in", "hp_out"} : RLe(Zero, i[f])

\* C3: rejection% is absent exactly when product TDS is absent or the
\* upstream TDS is zero or negative, and a number in every other case.
C3_RejectionAbsentIffNoUpstream ==
    /\ kpi_rejection_pct(None, inp.feed_tds) = None
    /\ out.computed =>
          (out.row.rejection_pct = None <=> RLe(inp.feed_tds, Zero))

C5_RecoveryZeroWithoutFeed ==
    (out.computed /\ Sanitized(inp) /\ RLe(inp.feed_flow, Zero))
        => out.row.recovery_pct = Zero

\* the stages before k that have vessel readings
EarlierWithData(k) == {j \in 1..(k - 1) : inp.vessel_tds[j] # <<>>}

\* the upstream of stage k as specified: the average of the nearest earlier
\* stage that has data, else feed TDS
NearestUpstream(k) ==
    IF EarlierWithData(k) = {} THEN inp.feed_tds
    ELSE LET j == CHOOSE m \in EarlierWithData(k) :
                      \A n \in EarlierWithData(k) : n <= m
         IN  Mean(inp.vessel_tds[j])

StageAvgOfInp ==
    stage_avg_of(per_vessel_rows(inp.vessel_tds), inp.feed_tds, num_stages)

C8_StageAverageAndRejection ==
    out.computed =>
        \A k \in 1..num_stages :
            LET vals == inp.vessel_tds[k]
                avg == out.row.stage_avg_tds[k]
                rej == out.row.stage_rejection_pct[k]
            IN  IF vals = <<>> THEN avg = None /\ rej = None
                ELSE /\ RMul(avg, Num(Len(vals))) = SumSeq(vals)
                     /\ k = 1 => rej = kpi_rejection_pct(avg, inp.feed_tds)
                     /\ (k >= 2 /\ inp.vessel_tds[k - 1] # <<>>) =>
                            rej = kpi_rejection_pct(avg, out.row.stage_avg_tds[k - 1])

\* C8 witness: feed TDS 1000, stage 1 averages 100 (rejection 90), stage 2
\* averages 50 and is rejected against 100 (50), not against 1000 (95).
C8_Witness ==
    /\ out.computed /\ num_stages >= 2
    /\ inp.vessel_tds[1] = <<Num(100), Num(100)>>
    /\ inp.vessel_tds[2] = <<Zero, Num(100)>>
    /\ out.row.stage_avg_tds[1] = Num(100)
    /\ out.row.stage_rejection_pct[1] = Num(90)
    /\ out.row.stage_avg_tds[2] = Num(50)
    /\ out.row.stage_rejection_pct[2] = Num(50)

\* specific energy as specified: from the pump pressure rise
EnergyFromRise(i) ==
    LET dP == RMax(RSub(i.hp_out, i.hp_in), Zero)
        P_kW == RDiv(RMul(dP, RDiv(i.feed_flow, Num(60))),
                     RMul(Num(36), RMax(RDiv(i.pump_efficiency, Hundred), Rat(1, 100))))
    IN  RDiv(P_kW, RDiv(RMul(i.product_flow, Num(60)), Num(1000)))

\* C9: specific energy is the hydraulic power of the pump pressure rise
\* max(pump_out - pump_in, 0) over the product flow, daily energy is specific
\* energy times product flow times 24, and both are 0 when pump_out <= pump_in.
C9_EnergyFromPressureRise ==
    (out.computed /\ Sanitized(inp) /\ RLt(Zero, inp.product_flow)) =>
        /\ out.row.specific_energy_kwh_m3 = EnergyFromRise(inp)
        /\ out.row.daily_kwh =
               RMul(RMul(EnergyFromRise(inp),
                         RDiv(RMul(inp.product_flow, Num(60)), Num(1000))), Num(24))
        /\ RLe(inp.hp_out, inp.hp_in) => out.row.specific_energy_kwh_m3 = Zero

PercentFields ==
    {"recovery_pct", "rejection_pct", "salt_passage_pct", "pqi", "pressure_recovery_pct"}

\* C10: for a sanitized reading every defined percentage KPI of the row
\* (recovery, rejection, salt passage, PQI, pressure recovery) is in [0, 100].
C10_PercentagesInRange ==
    (out.computed /\ Sanitized(inp)) =>
        \A f \in PercentFields :
            out.row[f] # None =>
                IsNum(out.row[f]) /\ RLe(Zero, out.row[f]) /\ RLe(out.row[f], Hundred)

\* C10 witness: product flow 150 of feed flow 100 and product TDS 1000 against
\* a target of 50: recovery is clamped to 100 and PQI to 0.
C10_Witness ==
    /\ out.computed /\ Sanitized(inp)
    /\ inp.feed_flow = Num(100) /\ inp.product_flow = Num(150)
    /\ inp.product_tds = Num(1000) /\ inp.feed_tds = Num(1000)
    /\ out.row.recovery_pct = Hundred
    /\ out.row.pqi = Zero
    /\ out.row.rejection_pct = Zero
    /\ out.row.salt_passage_pct = Hundred

\* the endpoint values of recovery% for the reading inp
RecoveryEndpoints ==
    RLt(Zero, inp.feed_flow) =>
        /\ inp.product_flow = inp.feed_flow => out.recovery_pct = Hundred
        /\ inp.product_flow = Zero => out.recovery_pct = Zero

\* the endpoint values of rejection% for the reading inp
RejectionEndpoints ==
    /\ inp.product_tds = inp.feed_tds => out.rejection_pct = Zero
    /\ inp.product_tds = Zero => out.rejection_pct = Hundred

FlowImbalance ==
    RAbs(RSub(RAdd(inp.product_flow, out.row.reject_flow_lpm), inp.feed_flow))

FlooredDifference(a, b) == IF RLt(b, a) THEN RSub(a, b) ELSE Zero

\* pi(feed TDS, T) - pi(product TDS, T) of the reading inp
OsmoticDifference ==
    RSub(osmotic_pressure_approx(inp.feed_tds, inp.temp_c),
         osmotic_pressure_approx(inp.product_tds, inp.temp_c))

\* C13: the cartridge, vessel-train and pump pressure drops and the NDP of a
\* computed row are >= 0 for all inputs: a drop is max(out - in, 0), absent
\* exactly when one of its two pressures is missing, and the NDP is
\* max(drop(pump out, feed out) - (pi(feed) - pi(product)), 0), so it is 0
\* whenever the osmotic difference is at least the hydraulic difference.
C13_PressureDropsNonNegative ==
    /\ \A p \in {inp.hp_in, inp.hp_out, inp.feed_p_out, inp.cartridge_p} :
           /\ kpi_delta_p(None, p) = None
           /\ kpi_delta_p(p, None) = None
           /\ kpi_delta_p(None, None) = None
    /\ out.computed =>
           LET hyd == FlooredDifference(inp.hp_out, inp.feed_p_out)
           IN  /\ out.row.cartridge_dp =
                      FlooredDifference(inp.cartridge_p, inp.feed_p_out)
               /\ out.row.vessel_dp = hyd
               /\ out.row.hp_dp = FlooredDifference(inp.hp_out, inp.hp_in)
               /\ out.row.ndp_bar = FlooredDifference(hyd, OsmoticDifference)
               /\ \A f \in {"cartridge_dp", "vessel_dp", "hp_dp", "ndp_bar"} :
                      out.row[f] # None /\ RLe(Zero, out.row[f])
               /\ RLe(hyd, OsmoticDifference) => out.row.ndp_bar = Zero

\* C13 witness: pump outlet 0 bar below feed outlet 1 bar and pump inlet
\* 2 bar: both drops are floored at 0, and the NDP is 0 under an osmotic
\* difference of 0.76 bar.
C13_Witness ==
    /\ out.computed
    /\ inp.hp_out = Zero /\ inp.hp_in = Num(2) /\ inp.feed_p_out = One
    /\ inp.feed_tds = Num(1000) /\ inp.product_tds = Num(50)
    /\ RLt(Zero, OsmoticDifference)
    /\ out.row.vessel_dp = Zero /\ out.row.hp_dp = Zero
    /\ out.row.cartridge_dp = Rat(7, 10)
    /\ out.row.ndp_bar = Zero

\* the list indices of series whose value is beyond the threshold thr:
\* strictly greater (above) or strictly less (below)
CrossingIndices(series, thr, above) ==
    {i \in 0..(Len(series) - 1) :
        IF above THEN RLt(thr, series[i + 1]) ELSE RLt(series[i + 1], thr)}

\* C14: the crossing scan returns the least index whose value is strictly
\* greater than the threshold (above) or strictly less (below); a value equal
\* to the threshold is no crossing, and the result is "no crossing" exactly
\* when no element satisfies the condition.
C14_LeastStrictCrossing ==
    out.computed =>
        LET hits == CrossingIndices(inp.series_future, inp.threshold, inp.above)
        IN  /\ out.cross = NoCrossing <=> hits = {}
            /\ hits # {} =>
                   (out.cross \in hits /\ \A i \in hits : out.cross <= i)
            /\ out.cross # NoCrossing =>
                   inp.series_future[out.cross + 1] # inp.threshold

\* C14 witness: in [10, 9, 11] against 10 upwards the threshold value itself
\* at index 0 and the lower value at index 1 are passed over for index 2.
C14_Witness ==
    /\ out.computed
    /\ MaxSeries > 2
    /\ inp.series_future = <<Num(10), Num(9), Num(11)>>
    /\ inp.threshold = Num(10) /\ inp.above
    /\ out.cross = 2

\* the history lies on a line: n >= 2 values with one common difference
OnLine(v) ==
    /\ Len(v) >= 2
    /\ \A i \in 2..(Len(v) - 1) : RSub(v[i + 1], v[i]) = RSub(v[2], v[1])

C16_ShortHistoryIsConstant ==
    (out.computed /\ Len(inp.values) < 2) =>
        /\ Len(out.forecast) = inp.horizon_days
        /\ out.cross \in {0, NoCrossing}
        /\ Len(inp.values) = 1 =>
               /\ \A j \in 1..inp.horizon_days : out.forecast[j] = inp.values[1]
               /\ out.cross = 0 <=>
                      (IF inp.above THEN RLt(inp.threshold, inp.values[1])
                       ELSE RLt(inp.values[1], inp.threshold))

\* C16 witness: the single value 5 forecast as 5 at every step, which is
\* above the threshold 3 from index 0 on.
C16_Witness ==
    /\ out.computed
    /\ inp.values = <<Num(5)>>
    /\ inp.threshold = Num(3) /\ inp.above
    /\ inp.horizon_days > 1
    /\ out.forecast = Repeat(Num(5), inp.horizon_days)
    /\ out.cross = 0

\* the recommendations whose rule the row r triggers, in the fixed order:
\* rejection below minimum, product TDS above maximum, cartridge dP above
\* maximum, vessel dP above maximum, flow imbalance
TriggeredTips(r, limits) ==
    (IF r.rejection_pct # None /\ RLt(r.rejection_pct, limits.rejection_min)
     THEN <<TipRejection>> ELSE <<>>)
    \o (IF r.product_tds # None /\ RLt(limits.product_tds_max, r.product_tds)
        THEN <<TipProductTds>> ELSE <<>>)
    \o (IF r.cartridge_dp # None /\ RLt(limits.cartridge_dp_max, r.cartridge_dp)
        THEN <<TipCartridge>> ELSE <<>>)
    \o (IF r.vessel_dp # None /\ RLt(limits.vessel_dp_max, r.vessel_dp)
        THEN <<TipVessel>> ELSE <<>>)
    \o (IF ~r.feed_vs_sum_ok THEN <<TipFlow>> ELSE <<>>)

\* the note holds the tip t
NoteHas(note, t) == \E k \in 1..Len(note) : note[k] = t

\* C17: the maintenance note is the "healthy" text exactly when none of the
\* five rules is triggered; otherwise it is the concatenation, in the fixed
\* order, of exactly the triggered recommendations, without the healthy text.
C17_NoteListsTriggeredRules ==
    (out.computed /\ Sanitized(inp)) =>
        LET tips == TriggeredTips(out.row, DEFAULT_LIMITS)
            note == out.row.maintenance_note
        IN  /\ note = <<TipHealthy>> <=> tips = <<>>
            /\ tips # <<>> => (note = tips /\ ~NoteHas(note, TipHealthy))

\* C18: whenever rejection% is defined and below the rejection minimum, also
\* when it is 0, the note holds the fouling/CIP recommendation; an absent
\* rejection% alone is unknown and triggers none: 0 is never taken for absent.
C18_LowRejectionAlwaysFlagged ==
    (out.computed /\ Sanitized(inp)) =>
        LET rej == out.row.rejection_pct
        IN  NoteHas(out.row.maintenance_note, TipRejection)
                <=> (rej # None /\ RLt(rej, DEFAULT_LIMITS.rejection_min))

\* the metrics inp against one set of bounds; an absent metric breaks none
MetricsWithin(rej, cf, dp, ndp, mb, lo, hi) ==
    /\ inp.rejection # None => RLe(Num(rej), inp.rejection)
    /\ RLe(inp.cf, cf)
    /\ \A k \in DOMAIN inp.dps : RLe(inp.dps[k], Num(dp))
    /\ RLe(Num(ndp), inp.ndp)
    /\ RLe(Num(-mb), inp.mb_error) /\ RLe(inp.mb_error, Num(mb))
    /\ inp.recovery # None =>
           (RLe(Num(lo), inp.recovery) /\ RLe(inp.recovery, Num(hi)))

\* C19: the status is Good exactly when every metric meets the tight bounds
\* (rejection >= 95, CF <= 2.5, every dP <= 3, NDP >= 1.0, |mass-balance
\* error| <= 5, recovery in [35,75]), OK exactly when some tight bound fails
\* but every loose bound holds (92, 3.0, 4, 1.0, 8, [25,80]), NeedsAttention
\* otherwise: the three are mutually exclusive and exhaustive.
C19_StatusByBounds ==
    out.computed =>
        LET tight == MetricsWithin(95, Rat(5, 2), 3, 1, 5, 35, 75)
            loose == MetricsWithin(92, Num(3), 4, 1, 8, 25, 80)
        IN  /\ out.status \in {"Good", "OK", "NeedsAttention"}
            /\ out.status = "Good" <=> tight
            /\ out.status = "OK" <=> (~tight /\ loose)
            /\ out.status = "NeedsAttention" <=> (~tight /\ ~loose)

\* C19 witness: rejection 93, CF 2.8, dP 3.5, NDP 1.2, mass-balance error 6
\* and no recovery fail the tight bounds and meet the loose ones: OK.
C19_Witness ==
    /\ out.computed
    /\ inp.rejection = Num(93) /\ inp.cf = Rat(28, 10)
    /\ inp.dps = <<Rat(7, 2), Rat(7, 2)>> /\ inp.ndp = Rat(6, 5)
    /\ inp.mb_error = Num(6) /\ inp.recovery = None
    /\ out.status = "OK"

\* product_tds / feed_tds - CFmax of the solver's input inp
SolverDenom == RSub(RDiv(inp.product_tds, inp.feed_tds), inp.cf_max)

\* C20: for feed TDS > 0, product TDS >= 0, feed flow >= 0 and any CF ceiling
\* the solver returns 0 <= Qp <= feed flow and Qr = feed flow - Qp; when
\* denom = product_tds/feed_tds - CFmax is >= 0 it returns the no-headroom
\* result Qp = 0, Qr = feed flow, reject TDS = feed TDS instead of raising.
C20_SolverWithinFeedFlow ==
    out.computed =>
        /\ RLe(Zero, out.Qp) /\ RLe(out.Qp, inp.feed_flow)
        /\ RAdd(out.Qp, out.Qr) = inp.feed_flow
        /\ RLe(Zero, SolverDenom) =>
               /\ out.Qp = Zero
               /\ out.Qr = inp.feed_flow
               /\ out.reject_tds = inp.feed_tds

\* C20 witness: feed TDS 1000, product TDS 50, feed flow 200, ceiling 2.5:
\* denom is -2.45 and Qp = 200 * (1 - 2.5) / -2.45 = 6000/49 (122.45), within
\* [0, 200].
C20_Witness ==
    /\ out.computed
    /\ inp.feed_tds = Num(1000) /\ inp.product_tds = Num(50)
    /\ inp.feed_flow = Num(200) /\ inp.cf_max = Rat(5, 2)
    /\ SolverDenom = Rat(-49, 20)
    /\ out.Qp = Rat(6000, 49)
    /\ out.Qr = Rat(3800, 49)

\* C21: whenever the solver finds a feasible, unclamped solution (denom < 0
\* and 0 < Qp < feed flow), the reject TDS recomputed from the salt balance
\* (feed_tds*feed_flow - product_tds*Qp)/Qr is exactly CFmax * feed_tds.
C21_RejectTdsAtCeiling ==
    (out.computed /\ RLt(SolverDenom, Zero)
        /\ RLt(Zero, out.Qp) /\ RLt(out.Qp, inp.feed_flow)) =>
        /\ out.reject_tds =
               RDiv(RSub(RMul(inp.feed_tds, inp.feed_flow),
                         RMul(inp.product_tds, out.Qp)), out.Qr)
        /\ out.reject_tds = RMul(inp.cf_max, inp.feed_tds)

\* C21 witness: feed TDS 1000, product TDS 50, feed flow 200, ceiling 2.5:
\* Qp = 6000/49 is unclamped and the reject TDS is 2500.
C21_Witness ==
    /\ out.computed
    /\ inp.feed_tds = Num(1000) /\ inp.product_tds = Num(50)
    /\ inp.feed_flow = Num(200) /\ inp.cf_max = Rat(5, 2)
    /\ out.Qp = Rat(6000, 49)
    /\ out.reject_tds = Num(2500)

\* no Calculate & Save is under way
AllIdle == \A s \in Sessions : writers.proc[s].pc = "idle"

\* the dates whose save was written to the file of key k
SavedDates(k) == {d \in Dates : saved[k][d].computed}

\* the dates the file of key k holds
StoredDates(k) == {Rows(k)[i].date : i \in 1..Len(Rows(k))}

\* C22: saves take no lock and read the whole series, then write it: when
\* two saves to one key interleave the stored series still has at most one
\* entry per date, but a date written by the first writer can be missing in
\* the end (C22_Witness); when the saves are serialized no saved date is lost.
C22_UnlockedSaves ==
    \A k \in Keys :
        /\ \A i, j \in 1..Len(Rows(k)) :
               i # j => Rows(k)[i].date # Rows(k)[j].date
        /\ (AllIdle /\ ~writers.interleaved) => SavedDates(k) = StoredDates(k)

\* C22 witness: two interleaved saves of different dates are over, both
\* written, and the file holds only one of the two dates: a lost update.
C22_Witness ==
    \E k \in Keys :
        /\ AllIdle /\ writers.interleaved
        /\ nsaves = 2
        /\ SavedDates(k) = {1, 2}
        /\ Cardinality(StoredDates(k)) = 1

\* the greatest element of a non-empty set of day numbers
MaxOf(S) == CHOOSE m \in S : \A x \in S : x <= m

\* C24: after any sequence of saves, whatever the order of their dates, the
\* stored series of every key is in ascending date order, and the last row
\* read back (the Dashboard's) is the row of the latest date saved.
C24_AscendingDates ==
    \A k \in Keys :
        /\ \A i, j \in 1..Len(Rows(k)) : i < j => Rows(k)[i].date < Rows(k)[j].date
        /\ files[k].exists =>
               dashboard_last(files[k]).date = MaxOf(SavedDates(k))

\* C24 witness: after MaxSaves saves a file holds every date, with different
\* readings at its first and at its last row, and the Dashboard reads the
\* latest date's row.
C24_Witness ==
    \E k \in Keys :
        /\ nsaves = MaxSaves
        /\ Len(Rows(k)) = MaxDate
        /\ dashboard_last(files[k]).date = MaxDate
        /\ saved[k][MaxDate].row.product_tds # saved[k][1].row.product_tds
        /\ Rows(k)[1].product_tds # dashboard_last(files[k]).product_tds

\* the account the submitted sign-in form names, after normalisation
Submitted(f) == normalize_email(f.email)

\* the step signs the session in with a verified password of an active,
\* existing account while the session is not locked
VerifiedSignIn ==
    /\ ~authed /\ authed'
    /\ out'.op = "sign_in" /\ inp'.form = "login"
    /\ Submitted(inp') \in DOMAIN users_db
    /\ users_db[Submitted(inp')].password_hash = hash_password(inp'.password)
    /\ users_db[Submitted(inp')].status = "active"
    /\ (lock_until = NoLock \/ now >= lock_until)
    /\ user_email' = Submitted(inp')
    /\ user_role' = users_db[Submitted(inp')].role

\* the step resets the three session fields
LoggedOut == authed /\ ~authed' /\ user_email' = None /\ user_role' = None

\* C26: authed becomes true only by a sign-in whose password verified against
\* the stored hash of an existing, active account while the session was not
\* locked; every other step but logout (a failed, a not-active or a locked
\* sign-in among them) leaves authed, user_email and user_role unchanged, and
\* logout resets all three.  A session that is not signed in has no user.
C26_AuthedOnlyBySignIn ==
    /\ [](~authed => user_email = None /\ user_role = None)
    /\ [][\/ VerifiedSignIn
          \/ LoggedOut
          \/ UNCHANGED <<authed, user_email, user_role>>]_vars
    /\ [][out'.op = "logout" => LoggedOut]_vars
    /\ [][out'.op = "sign_in" /\ out'.outcome # "signed_in"
             => UNCHANGED <<authed, user_email, user_role>>]_vars

\* C26 witness: a registered user has signed in, in a session that was
\* locked out before and whose lockout has expired.
C26_Witness ==
    /\ authed /\ user_role = "user" /\ user_email = NewEmail
    /\ lock_until # NoLock /\ now >= lock_until
    /\ out = [op |-> "sign_in", outcome |-> "signed_in"]

\* the step is a sign-in that did not sign the session in for wrong
\* credentials or for an account that is not active
FailedSignIn == out'.op = "sign_in" /\ out'.outcome \in {"invalid", "not_active"}

\* C27: the counter of failed sign-ins goes up by one at each
\* wrong-credential attempt and back to 0 only at a successful sign-in; time
\* passing changes neither the counter nor the lockout; a lockout of 2
\* minutes starts at the attempt that brings the counter to 5 and at no
\* earlier attempt, and once the counter is 5 or more every unsuccessful
\* sign-in (wrong credentials or account not active) starts a new one.
C27_CounterAndLockout ==
    /\ [](is_locked => login_attempts >= 5)
    /\ [][/\ (out'.op = "sign_in" /\ out'.outcome = "invalid")
                 => login_attempts' = login_attempts + 1
          /\ login_attempts' # login_attempts
                 => \/ out'.op = "sign_in" /\ out'.outcome = "invalid"
                    \/ login_attempts' = 0 /\ ~authed /\ authed'
          /\ now' # now => UNCHANGED <<login_attempts, lock_until>>
          /\ lock_until' # lock_until
                 => FailedSignIn /\ login_attempts' >= 5 /\ lock_until' = now + 2
          /\ (FailedSignIn /\ login_attempts' >= 5) => lock_until' = now + 2]_vars

\* C27 witness: the counter stands at 5, the first lockout has expired, and a
\* sign-in to an account that is not active has just started a new lockout.
C27_Witness ==
    /\ out = [op |-> "sign_in", outcome |-> "not_active"]
    /\ login_attempts = 5
    /\ now >= 2 /\ lock_until = now + 2

\* the residuals of the history v against the line through the forecast f,
\* whose step j (from 0) is at x = Len(v) + j
Residuals(v, f) ==
    LET m == RSub(f[2], f[1])
        b == RSub(f[1], RMul(m, Num(Len(v))))
    IN  [i \in 1..Len(v) |-> RSub(v[i], RAdd(RMul(m, Num(i - 1)), b))]

\* f is the least-squares line of v continued: equal steps, and residuals
\* that sum to zero, also when weighted by x
ExtrapolatedLine(v, f) ==
    /\ \A j \in 2..(Len(f) - 1) : RSub(f[j + 1], f[j]) = RSub(f[2], f[1])
    /\ Len(f) >= 2 =>
           LET r == Residuals(v, f)
           IN  /\ SumSeq(r) = Zero
               /\ SumSeq([i \in 1..Len(r) |-> RMul(Num(i - 1), r[i])]) = Zero

\* C28: the forecaster returns exactly horizon values for every history
\* length and never raises: horizon zeros for an empty history, the value
\* repeated for one point, the least-squares line continued for two or more
\* points, and the last value repeated when the fit fails.
C28_AlwaysHorizonValues ==
    out.computed =>
        LET v == inp.values
            f == out.forecast
        IN  /\ ~out.raised
            /\ Len(f) = inp.horizon_days
            /\ v = <<>> => \A j \in 1..Len(f) : f[j] = Zero
            /\ Len(v) = 1 => \A j \in 1..Len(f) : f[j] = v[1]
            /\ (Len(v) >= 2 /\ out.fit = "line") => ExtrapolatedLine(v, f)
            /\ out.fit = "raises" => \A j \in 1..Len(f) : f[j] = v[Len(v)]

\* C28 witness: the fit of a history with a missing value failed, and the
\* forecast is its last value at each of the MaxHorizon steps.
C28_Witness ==
    /\ out.computed /\ out.fit = "raises"
    /\ inp.values = <<Num(1), NaN, Num(5)>>
    /\ inp.horizon_days = MaxHorizon
    /\ out.forecast = [j \in 1..MaxHorizon |-> Num(5)]

RECURSIVE SumInts(_)
SumInts(q) == IF q = <<>> THEN 0 ELSE Head(q) + SumInts(Tail(q))

NewAccount(f) ==
    [password_hash |-> hash_password(f.password), role |-> "user", status |-> "active"]

\* the registration form f must be rejected, given the accounts db
MustReject(f, db) ==
    \/ normalize_email(f.email) \in DOMAIN db
    \/ ~ValidEmail(normalize_email(f.email))
    \/ Len(f.password) < 8
    \/ \A i \in 1..Len(f.password) : f.password[i] \notin Digits
    \/ f.password # f.password2

Series(u, c, n) == files[user_csv_path(u, c, n)].rows

\* C25: a save under the key (user, capacity, stage count) active at that
\* moment writes that key's series, which then holds a row of that user, and
\* leaves the series of every other key, of this and of every other user,
\* unchanged.
C25_IndependentSeries ==
    [][nsaves' # nsaves =>
          \A u \in Accounts, c \in CapacityValues, n \in SaveStageCounts :
              IF <<u, c, n>> = <<user_email, plant_capacity, num_stages>>
              THEN \E i \in 1..Len(files'[user_csv_path(u, c, n)].rows) :
                       files'[user_csv_path(u, c, n)].rows[i].user = u
              ELSE files'[user_csv_path(u, c, n)].rows = Series(u, c, n)]_vars

=============================================================================
